---- MODULE Spec2Model ----
(***************************************************************************)
(* TutorX: the user-progress and entitlement state machine of the App      *)
(* component (src/types.ts, App.tsx section), the tutor chat of LessonView *)
(* (src/unnamed/part_000) and the document analysis of Profile             *)
(* (src/components/Profile.tsx).                                           *)
(*                                                                         *)
(* Time is in milliseconds, as Date.now() gives it; the clock of the model *)
(* starts at StartTime and the model keeps the 24 h constant of the code.  *)
(***************************************************************************)
EXTENDS Integers, Sequences, FiniteSets, TLC

\* ------------------------------------------------------------------------
\* Program constants
\* ------------------------------------------------------------------------

\* src/types.ts:339  const twentyFourHours = 24 * 60 * 60 * 1000
twentyFourHours == 24 * 60 * 60 * 1000

\* src/unnamed/part_000:104  questionCount >= 100
DailyLimit == 100

\* src/types.ts:444  score < 70
WeakBelow == 70

\* src/types.ts:446  score >= 85
RecoveredFrom == 85

\* src/types.ts:452  Math.min(100, ...)
ProgressMax == 100

\* src/types.ts:452  isMasteryOnly ? 2 : 5
MasteryStep == 2

\* src/types.ts:452  isMasteryOnly ? 2 : 5
QuizStep == 5

\* src/types.ts:503  recordActivity(100, true)
MasteryScore == 100

\* Length of a calendar day, and the offset of local time from UTC used by
\* Date.prototype.toDateString (src/types.ts:434).
MsPerDay == 24 * 60 * 60 * 1000
TzOffset == 2 * 60 * 60 * 1000

\* An optional number field that is absent (lastActiveDate?: number, and a
\* stored profile written before lastQuestionResetDate existed).
Undefined == 0 - 1

\* user: UserProfile | null, activeLesson: LessonContent | null
NULL == [null |-> TRUE]

\* ------------------------------------------------------------------------
\* Bounds of the model
\* ------------------------------------------------------------------------

\* Number of clock advances of one step each.
MaxTicks == 2

\* Number of recordActivity calls in one run.
MaxActs == 2

\* Number of accepted tutor questions in one run.
MaxAsks == 2

\* Number of document analyses in one run.
MaxDocs == 1

\* Number of startLearning requests in flight.
MaxPending == 2

\* Number of narrations started in one run.
MaxNarrations == 2

\* Number of audio chunks of a lesson text (its non-empty paragraphs).
MaxChunks == 2

\* The clock starts at 06:00 local time of day 10 and advances in steps of
\* twelve hours: 18:00 the same day, 06:00 the next day (24 h later), ...
StartTime == 10 * MsPerDay + 4 * 60 * 60 * 1000
TickStep == 12 * 60 * 60 * 1000

Topics == {"Calculus", "Algebra"}
QuizScores == {69, 70, 84, 85}
Levels == {"Beginner", "Advanced"}
Tiers == {"FREE", "PREMIUM", "PRO"}
Email == "a@x"

\* ------------------------------------------------------------------------
\* Array helpers
\* ------------------------------------------------------------------------

\* Array.prototype.includes
Includes(arr, x) == \E i \in 1..Len(arr) : arr[i] = x

\* Array.prototype.filter(t => t !== x)
FilterOut(arr, x) == SelectSeq(arr, LAMBDA t : t # x)

\* [...new Set(arr)]: the first occurrence of every element, in order
RECURSIVE Dedup(_)
Dedup(arr) ==
  IF arr = <<>> THEN <<>>
  ELSE LET front == Dedup(SubSeq(arr, 1, Len(arr) - 1))
           last  == arr[Len(arr)]
       IN IF Includes(front, last) THEN front ELSE Append(front, last)

Elems(arr) == {arr[i] : i \in 1..Len(arr)}

\* src/types.ts:321, 375: no error is shown
NoError == ""

\* src/types.ts:390: the message handleAuth shows when authentication fails
AuthErrorMessage == "Authentication failed. Please check your credentials."

\* x || d for a number x: 0 and undefined are falsy
OrElse(x, d) == IF x = Undefined \/ x = 0 THEN d ELSE x

\* new Date(t).toDateString(): the local calendar date of t
toDateString(t) == (t + TzOffset) \div MsPerDay

\* ------------------------------------------------------------------------
\* Profile transitions
\* ------------------------------------------------------------------------

\* The profile a registration creates: all counters zeroed (spec section 3).
FreshProfile(t) ==
  [ email |-> Email, tier |-> "FREE", learningProgress |-> 0,
    completedTopics |-> <<>>, quizScores |-> <<>>, streak |-> 0,
    lastActiveDate |-> Undefined, weakTopics |-> <<>>,
    dailyQuestionCount |-> 0, lastQuestionResetDate |-> t,
    uploadedDocuments |-> <<>> ]

checkAndResetDailyLimit_stale(profile, t) ==
  LET lastReset == OrElse(profile.lastQuestionResetDate, 0)
  IN IF t - lastReset >= twentyFourHours
     THEN [profile EXCEPT !.dailyQuestionCount = 0,
                          !.lastQuestionResetDate = lastReset + twentyFourHours]
     ELSE profile

checkAndResetDailyLimit_strict(profile, t) ==
  LET lastReset == OrElse(profile.lastQuestionResetDate, 0)
  IN IF t - lastReset > twentyFourHours
     THEN [profile EXCEPT !.dailyQuestionCount = 0,
                          !.lastQuestionResetDate = t]
     ELSE profile

checkAndResetDailyLimit(profile, t) ==
  LET lastReset == OrElse(profile.lastQuestionResetDate, 0)
  IN IF t - lastReset >= twentyFourHours
     THEN [profile EXCEPT !.dailyQuestionCount = 0,
                          !.lastQuestionResetDate = t]
     ELSE profile


IncrementedProfile_restart(u) ==
  [u EXCEPT !.dailyQuestionCount = OrElse(u.dailyQuestionCount, 0) + 1,
            !.lastQuestionResetDate = 0]

\* src/types.ts:423-427: { ...user, dailyQuestionCount: (user.dailyQuestionCount || 0) + 1 }
IncrementedProfile(u) ==
  [u EXCEPT !.dailyQuestionCount = OrElse(u.dailyQuestionCount, 0) + 1]

isNewDay_elapsed(u, t) ==
  \/ u.lastActiveDate = Undefined
  \/ u.lastActiveDate = 0
  \/ t - u.lastActiveDate >= MsPerDay

\* src/types.ts:433-434
isNewDay(u, t) ==
  \/ u.lastActiveDate = Undefined
  \/ u.lastActiveDate = 0
  \/ toDateString(u.lastActiveDate) # toDateString(t)

WeakTopicsAfter_eager(weak, topic, score) ==
  IF score < WeakBelow /\ ~Includes(weak, topic) THEN Append(weak, topic)
  ELSE IF score >= WeakBelow THEN FilterOut(weak, topic)
  ELSE weak

WeakTopicsAfter_above(weak, topic, score) ==
  IF score < WeakBelow /\ ~Includes(weak, topic) THEN Append(weak, topic)
  ELSE IF score > RecoveredFrom THEN FilterOut(weak, topic)
  ELSE weak

\* src/types.ts:443-448
WeakTopicsAfter(weak, topic, score) ==
  IF score < WeakBelow /\ ~Includes(weak, topic) THEN Append(weak, topic)
  ELSE IF score >= RecoveredFrom THEN FilterOut(weak, topic)
  ELSE weak

ProgressAfter_unclamped(progress, isMasteryOnly) ==
  progress + (IF isMasteryOnly THEN MasteryStep ELSE QuizStep)

ProgressAfter_flat(progress, isMasteryOnly) ==
  LET raised == progress + QuizStep
  IN IF raised < ProgressMax THEN raised ELSE ProgressMax

\* src/types.ts:452
ProgressAfter(progress, isMasteryOnly) ==
  LET raised == progress + (IF isMasteryOnly THEN MasteryStep ELSE QuizStep)
  IN IF raised < ProgressMax THEN raised ELSE ProgressMax

\* src/types.ts:455
StreakAfter(u, t) ==
  IF isNewDay(u, t) THEN OrElse(u.streak, 0) + 1 ELSE OrElse(u.streak, 1)

CompletedAfter_kept(completed, topic) == Dedup(completed)

\* src/types.ts:453
CompletedAfter(completed, topic) == Dedup(Append(completed, topic))

RecordedProfile_prepend(u, lesson, difficulty, score, isMasteryOnly, t) ==
  [u EXCEPT
     !.learningProgress = ProgressAfter(u.learningProgress, isMasteryOnly),
     !.completedTopics  = CompletedAfter(u.completedTopics, lesson.topic),
     !.quizScores       = <<[topic |-> lesson.topic, score |-> score,
                             date |-> t, difficulty |-> difficulty]>>
                            \o u.quizScores,
     !.streak           = StreakAfter(u, t),
     !.lastActiveDate   = t,
     !.weakTopics       = WeakTopicsAfter(u.weakTopics, lesson.topic, score)]

\* src/types.ts:432-458: the profile recordActivity builds from user, the
\* active lesson, the active difficulty, the score and Date.now()
RecordedProfile(u, lesson, difficulty, score, isMasteryOnly, t) ==
  [u EXCEPT
     !.learningProgress = ProgressAfter(u.learningProgress, isMasteryOnly),
     !.completedTopics  = CompletedAfter(u.completedTopics, lesson.topic),
     !.quizScores       = Append(u.quizScores,
                            [topic |-> lesson.topic, score |-> score,
                             date |-> t, difficulty |-> difficulty]),
     !.streak           = StreakAfter(u, t),
     !.lastActiveDate   = t,
     !.weakTopics       = WeakTopicsAfter(u.weakTopics, lesson.topic, score)]

hasExceededLimit_over(tier, userProfile) ==
  LET isFree == tier = "FREE"
      questionCount == IF userProfile = NULL THEN 0
                       ELSE OrElse(userProfile.dailyQuestionCount, 0)
  IN isFree /\ questionCount > DailyLimit

\* src/unnamed/part_000:102-104
hasExceededLimit(tier, userProfile) ==
  LET isFree == tier = "FREE"
      questionCount == IF userProfile = NULL THEN 0
                       ELSE OrElse(userProfile.dailyQuestionCount, 0)
  IN isFree /\ questionCount >= DailyLimit

isLevelLocked_proOnly(u, lv) ==
  IF lv = "Beginner" THEN FALSE ELSE u.tier # "PRO"

\* src/components/Dashboard.tsx:62-66
isLevelLocked(u, lv) == IF lv = "Beginner" THEN FALSE ELSE u.tier = "FREE"

\* src/unnamed/part_000:102, 474: the exam tab shows the lock screen instead
\* of the quiz
isExamLocked(tier) == tier = "FREE"

\* src/components/Profile.tsx:25
isPremium(u) == u.tier # "FREE"

\* src/components/Profile.tsx:45-54
AnalysedProfile(u, t) ==
  [u EXCEPT !.uploadedDocuments =
     <<[fileName |-> "notes.pdf", analysis |-> "analysis", date |-> t]>>
       \o u.uploadedDocuments]


\* ------------------------------------------------------------------------
\* State
\* ------------------------------------------------------------------------

VARIABLES
  now,              \* Date.now()
  stored,           \* localStorage 'tutorx_user' (mockAuth.getStoredUser)
  db,               \* the persisted record of the account (persistence store)
  mounted,          \* the App mount effect has run
  user,             \* App state: user
  currentScreen,    \* App state: currentScreen
  activeLesson,     \* App state: activeLesson
  activeDifficulty, \* App state: activeDifficulty
  loading,          \* App state: loading
  authPending,      \* handleAuth awaiting mockAuth ("none", "register", "login")
  error,            \* App state: error (the message shown, or NoError)
  showUpgrade,      \* App state: showUpgrade
  lessonReqs,       \* startLearning calls awaiting generateLesson
  latestReq,        \* the startLearning call issued last and how it ended
  chatHistory,      \* LessonView state: chatHistory
  isTyping,         \* LessonView state: isTyping
  streamingMessage, \* LessonView state: streamingMessage
  tutorPending,     \* the askTutor call handleSendMessage awaits, or NULL
  lessonCompleted,  \* LessonView state: lessonCompleted
  isSpeaking,       \* LessonView state: isSpeaking
  isPaused,         \* LessonView state: isPaused
  isSynthesizing,   \* LessonView state: isSynthesizing
  audioContextRef,  \* LessonView ref: the AudioContext in use (0: null)
  activeSourcesRef, \* LessonView ref: the sources started and not ended
  playLoops,        \* toggleSpeech loops awaiting an audio chunk
  narrations,       \* AudioContexts created so far
  isAnalyzing,      \* Profile state: isAnalyzing
  docReqs,          \* handleFileSelect calls awaiting analyzeDocument
  lastOp,           \* "done", or the way the last handler gave up
  acts,             \* recordActivity calls so far
  asks,             \* accepted tutor questions so far
  docs              \* document analyses started so far

appVars  == <<user, currentScreen, activeLesson, activeDifficulty, loading,
              authPending, error, showUpgrade, lessonReqs, latestReq>>
audioVars == <<isSpeaking, isPaused, isSynthesizing, audioContextRef,
               activeSourcesRef, playLoops, narrations>>
viewVars == <<chatHistory, isTyping, streamingMessage, tutorPending,
              lessonCompleted, audioVars>>
vars == <<now, stored, db, mounted, user, currentScreen, activeLesson,
          activeDifficulty, loading, authPending, error, showUpgrade,
          lessonReqs, latestReq, chatHistory, isTyping, streamingMessage,
          tutorPending,
          lessonCompleted, audioVars, isAnalyzing, docReqs, lastOp, acts,
          asks, docs>>

MaxTime == StartTime + MaxTicks * TickStep

\* src/types.ts:499: LessonView is rendered (and keeps its state) while a
\* user is logged in, the screen is LEARNING and a lesson is active
LessonViewShown(u, screen, lesson) ==
  u # NULL /\ screen = "learning" /\ lesson # NULL

\* src/types.ts:512: Profile is rendered while the screen is PROFILE
ProfileShown(u, screen) == u # NULL /\ screen = "profile"

\* A component that is no longer rendered loses its state; its pending
\* continuations update nothing.
ViewAfter(u, screen, lesson) ==
  /\ IF LessonViewShown(u, screen, lesson)
     THEN UNCHANGED viewVars
     ELSE /\ chatHistory' = <<>>
          /\ isTyping' = FALSE
          /\ streamingMessage' = ""
          /\ tutorPending' = NULL
          /\ lessonCompleted' = FALSE
          /\ isSpeaking' = FALSE
          /\ isPaused' = FALSE
          /\ isSynthesizing' = FALSE
          /\ audioContextRef' = 0
          /\ activeSourcesRef' = {}
          /\ playLoops' = {}
          /\ narrations' = narrations
  /\ isAnalyzing' = IF ProfileShown(u, screen) THEN isAnalyzing ELSE FALSE

\* ------------------------------------------------------------------------
\* Sessions a browser can hold when the application starts
\* ------------------------------------------------------------------------

\* the profile after n questions (n times incrementQuestionCount)
Asked(u, n) == [u EXCEPT !.dailyQuestionCount = OrElse(@, 0) + n]

RECURSIVE Quizzed(_, _, _)
Quizzed(u, n, t) ==
  IF n = 0 THEN u
  ELSE Quizzed(RecordedProfile(u, [topic |-> "Algebra", level |-> "Beginner"],
                               "Beginner", 90, FALSE, t), n - 1, t)

\* registered one second ago, 99 questions asked since
BusySession == Asked(FreshProfile(StartTime - 1000), DailyLimit - 1)

\* registered three days ago and upgraded; 7, 6 and 6 quizzes taken on three
\* days in a row (saved with each quiz), the last of them in a session that
\* started exactly 24 hours ago
VeteranRecord ==
  LET t3 == StartTime - 3 * MsPerDay
      t2 == StartTime - 2 * MsPerDay
      t1 == StartTime - twentyFourHours
      u3 == Quizzed([FreshProfile(t3) EXCEPT !.tier = "PREMIUM"], 7, t3)
      u2 == Quizzed(checkAndResetDailyLimit(u3, t2), 6, t2)
  IN Quizzed(checkAndResetDailyLimit(u2, t1), 6, t1)

\* ... in which 100 questions were asked (kept in the session only)
VeteranSession == Asked(VeteranRecord, DailyLimit)

StoredSessions == {BusySession, VeteranSession}

\* ------------------------------------------------------------------------
\* Init
\* ------------------------------------------------------------------------

Init ==
  /\ now = StartTime
  /\ \/ stored = NULL /\ db = NULL
     \/ stored = BusySession /\ db = FreshProfile(StartTime - 1000)
     \/ stored = VeteranSession /\ db = VeteranRecord
  /\ mounted = FALSE
  /\ user = NULL
  /\ currentScreen = "landing"
  /\ activeLesson = NULL
  /\ activeDifficulty = "Beginner"
  /\ loading = FALSE
  /\ authPending = "none"
  /\ error = NoError
  /\ showUpgrade = FALSE
  /\ lessonReqs = <<>>
  /\ latestReq = NULL
  /\ chatHistory = <<>>
  /\ isTyping = FALSE
  /\ streamingMessage = ""
  /\ tutorPending = NULL
  /\ lessonCompleted = FALSE
  /\ isSpeaking = FALSE
  /\ isPaused = FALSE
  /\ isSynthesizing = FALSE
  /\ audioContextRef = 0
  /\ activeSourcesRef = {}
  /\ playLoops = {}
  /\ narrations = 0
  /\ isAnalyzing = FALSE
  /\ docReqs = <<>>
  /\ lastOp = "done"
  /\ acts = 0
  /\ asks = 0
  /\ docs = 0


\* ------------------------------------------------------------------------
\* App: mount, authentication, navigation
\* ------------------------------------------------------------------------

\* src/types.ts:351-359: the mount effect restores a stored session
Mount ==
  /\ ~mounted
  /\ mounted' = TRUE
  /\ IF stored # NULL
     THEN LET updatedUser == checkAndResetDailyLimit(stored, now)
          IN /\ user' = updatedUser
             /\ stored' = updatedUser
             /\ currentScreen' = "dashboard"
     ELSE UNCHANGED <<user, stored, currentScreen>>
  /\ lastOp' = "done"
  /\ UNCHANGED <<now, db, activeLesson, activeDifficulty, loading,
                 authPending, error, showUpgrade, lessonReqs, latestReq, viewVars,
                 isAnalyzing, docReqs, acts, asks, docs>>

\* Time passes.
Tick ==
  /\ mounted
  /\ now < MaxTime
  /\ now' = now + TickStep
  /\ lastOp' = "done"
  /\ UNCHANGED <<stored, db, mounted, appVars, viewVars, isAnalyzing,
                 docReqs, acts, asks, docs>>

\* src/types.ts:480: LandingPage onNavigate between the auth screens
NavigateAuth(screen) ==
  /\ mounted
  /\ user = NULL
  /\ currentScreen # screen
  /\ currentScreen' = screen
  /\ lastOp' = "done"
  /\ UNCHANGED <<now, stored, db, mounted, user, activeLesson,
                 activeDifficulty, loading, authPending, error, showUpgrade,
                 lessonReqs, latestReq, viewVars, isAnalyzing, docReqs, acts, asks, docs>>

\* src/types.ts:373-382: handleAuth up to the await
HandleAuth ==
  /\ mounted
  /\ user = NULL
  /\ authPending = "none"
  /\ authPending' = IF currentScreen \in {"register", "landing"}
                    THEN "register" ELSE "login"
  /\ error' = NoError
  /\ lastOp' = "done"
  /\ UNCHANGED <<now, stored, db, mounted, user, currentScreen, activeLesson,
                 activeDifficulty, loading, showUpgrade, lessonReqs, latestReq, viewVars,
                 isAnalyzing, docReqs, acts, asks, docs>>

\* mockAuth.register / mockAuth.login: the persistence store of spec
\* section 6. Registration creates the record of the account, login loads
\* it; both leave it as the stored session.
AuthResult(kind) ==
  IF kind = "register"
  THEN IF db = NULL THEN FreshProfile(now) ELSE NULL
  ELSE db

AuthResolve_leaky(ok) ==
  /\ authPending # "none"
  /\ authPending' = "none"
  /\ LET loggedUser == AuthResult(authPending)
     IN IF ok /\ loggedUser # NULL
        THEN LET checkedUser == checkAndResetDailyLimit(loggedUser, now)
             IN /\ user' = checkedUser
                /\ currentScreen' = "dashboard"
                /\ stored' = loggedUser
                /\ db' = loggedUser
                /\ error' = error
                /\ lastOp' = "done"
                /\ ViewAfter(checkedUser, "dashboard", activeLesson)
        ELSE /\ error' = IF ok THEN "No account for this email."
                         ELSE AuthErrorMessage
             /\ lastOp' = "authFailed"
             /\ UNCHANGED <<user, currentScreen, stored, db, viewVars,
                            isAnalyzing>>
  /\ UNCHANGED <<now, mounted, activeLesson, activeDifficulty, loading,
                 showUpgrade, lessonReqs, latestReq, docReqs, acts, asks, docs>>

\* src/types.ts:384-393: handleAuth after the await. mockAuth rejects (ok is
\* FALSE: wrong password, service failure) or finds no account to log in to
\* or an account that already exists (AuthResult is NULL); the catch block
\* ignores the error it is given.
AuthResolve(ok) ==
  /\ authPending # "none"
  /\ authPending' = "none"
  /\ LET loggedUser == AuthResult(authPending)
     IN IF ok /\ loggedUser # NULL
        THEN LET checkedUser == checkAndResetDailyLimit(loggedUser, now)
             IN /\ user' = checkedUser
                /\ currentScreen' = "dashboard"
                /\ stored' = loggedUser
                /\ db' = loggedUser
                /\ error' = error
                /\ lastOp' = "done"
                /\ ViewAfter(checkedUser, "dashboard", activeLesson)
        ELSE /\ error' = AuthErrorMessage
             /\ lastOp' = "authFailed"
             /\ UNCHANGED <<user, currentScreen, stored, db, viewVars,
                            isAnalyzing>>
  /\ UNCHANGED <<now, mounted, activeLesson, activeDifficulty, loading,
                 showUpgrade, lessonReqs, latestReq, docReqs, acts, asks, docs>>

\* src/types.ts:396-401
HandleLogout ==
  /\ user # NULL
  /\ stored' = NULL
  /\ user' = NULL
  /\ currentScreen' = "landing"
  /\ activeLesson' = NULL
  /\ ViewAfter(NULL, "landing", NULL)
  /\ lastOp' = "done"
  /\ UNCHANGED <<now, db, mounted, activeDifficulty, loading, authPending,
                 error, showUpgrade, lessonReqs, latestReq, docReqs, acts, asks, docs>>

\* src/types.ts:492 (Layout onNavigate) and src/types.ts:507 (onBack)
Navigate(screen) ==
  /\ user # NULL
  /\ currentScreen # screen
  /\ currentScreen' = screen
  /\ ViewAfter(user, screen, activeLesson)
  /\ lastOp' = "done"
  /\ UNCHANGED <<now, stored, db, mounted, user, activeLesson,
                 activeDifficulty, loading, authPending, error, showUpgrade,
                 lessonReqs, latestReq, docReqs, acts, asks, docs>>


\* ------------------------------------------------------------------------
\* App: lessons
\* ------------------------------------------------------------------------

\* src/types.ts:408-412: startLearning up to the await. It is called by
\* Dashboard.handleSubmit (src/components/Dashboard.tsx:56-60, with the level
\* handleLevelClick let through) and by the Next Topics tab
\* (src/types.ts:505, always at Beginner level).
startLearning(topic, level) ==
  /\ Len(lessonReqs) < MaxPending
  /\ loading' = TRUE
  /\ activeDifficulty' = level
  /\ lessonReqs' = Append(lessonReqs, [topic |-> topic, level |-> level])
  /\ latestReq' = [topic |-> topic, level |-> level, state |-> "pending"]
  /\ lastOp' = "done"
  /\ UNCHANGED <<now, stored, db, mounted, user, currentScreen, activeLesson,
                 authPending, error, showUpgrade, viewVars, isAnalyzing,
                 docReqs, acts, asks, docs>>

DashboardSubmit(topic, level) ==
  /\ user # NULL
  /\ currentScreen = "dashboard"
  /\ ~loading
  /\ ~isLevelLocked(user, level)
  /\ startLearning(topic, level)

NextTopicClick(topic) ==
  /\ LessonViewShown(user, currentScreen, activeLesson)
  /\ startLearning(topic, "Beginner")

\* The call issued last is the last of the pending ones until it completes:
\* startLearning appends, and the completion of an older call leaves it last.
IsLatest(i) ==
  /\ latestReq # NULL
  /\ latestReq.state = "pending"
  /\ i = Len(lessonReqs)

RemoveAt(seq, i) == SubSeq(seq, 1, i - 1) \o SubSeq(seq, i + 1, Len(seq))

\* src/types.ts:412-420: startLearning after the await
LessonResolve(i, ok) ==
  /\ i \in 1..Len(lessonReqs)
  /\ lessonReqs' = RemoveAt(lessonReqs, i)
  /\ latestReq' = IF IsLatest(i)
                  THEN [latestReq EXCEPT !.state = IF ok THEN "shown"
                                                  ELSE "failed"]
                  ELSE latestReq
  /\ loading' = FALSE
  /\ IF ok
     THEN /\ activeLesson' = lessonReqs[i]
          /\ currentScreen' = "learning"
          /\ ViewAfter(user, "learning", lessonReqs[i])
          /\ lastOp' = "done"
     ELSE /\ UNCHANGED <<activeLesson, currentScreen, viewVars, isAnalyzing>>
          /\ lastOp' = "lessonFailed"
  /\ UNCHANGED <<now, stored, db, mounted, user, activeDifficulty,
                 authPending, error, showUpgrade, docReqs, acts, asks, docs>>

\* src/types.ts:403-406
handleUpdateUser(updatedUser) ==
  /\ user' = updatedUser
  /\ stored' = updatedUser

\* src/types.ts:429-462: recordActivity, with mockFirestore.saveProgress
\* writing the record of the account
recordActivity(score, isMasteryOnly) ==
  /\ user # NULL /\ activeLesson # NULL
  /\ acts < MaxActs
  /\ LET updatedUser == RecordedProfile(user, activeLesson, activeDifficulty,
                                        score, isMasteryOnly, now)
     IN /\ handleUpdateUser(updatedUser)
        /\ db' = updatedUser
  /\ acts' = acts + 1

\* src/unnamed/part_000:473-476: QuizView (shown on the exam tab unless the
\* tier is FREE) reports the score of a finished quiz to onComplete
QuizComplete(score) ==
  /\ LessonViewShown(user, currentScreen, activeLesson)
  /\ ~isExamLocked(user.tier)
  /\ recordActivity(score, FALSE)
  /\ lastOp' = "done"
  /\ UNCHANGED <<now, mounted, currentScreen, activeLesson, activeDifficulty,
                 loading, authPending, error, showUpgrade, lessonReqs, latestReq,
                 viewVars, isAnalyzing, docReqs, asks, docs>>

\* src/unnamed/part_000:284-289 with src/types.ts:503; the button is shown
\* while the lesson is not completed (src/unnamed/part_000:420)
handleMarkMastery ==
  /\ LessonViewShown(user, currentScreen, activeLesson)
  /\ ~lessonCompleted
  /\ recordActivity(MasteryScore, TRUE)
  /\ lessonCompleted' = TRUE
  /\ lastOp' = "done"
  /\ UNCHANGED <<now, mounted, currentScreen, activeLesson, activeDifficulty,
                 loading, authPending, error, showUpgrade, lessonReqs, latestReq,
                 chatHistory, isTyping, streamingMessage, tutorPending,
                 isAnalyzing, docReqs, asks, docs, audioVars>>

\* ------------------------------------------------------------------------
\* LessonView: tutor chat
\* ------------------------------------------------------------------------

SendRejected_unlimited(chatInput) ==
  \/ chatInput = ""
  \/ isTyping
  \/ streamingMessage # ""

SendRejected_eager(chatInput) ==
  \/ chatInput = ""
  \/ hasExceededLimit(user.tier, user)

\* src/unnamed/part_000:256: the guard of handleSendMessage
SendRejected(chatInput) ==
  \/ chatInput = ""
  \/ isTyping
  \/ streamingMessage # ""
  \/ hasExceededLimit(user.tier, user)

\* src/unnamed/part_000:254-267 with src/types.ts:423-427: handleSendMessage
\* up to the await. chatInput is the trimmed text of the input box. askTutor
\* is called with the chatHistory and the userProfile of the render the
\* handler belongs to: those before this question.
handleSendMessage(chatInput) ==
  /\ LessonViewShown(user, currentScreen, activeLesson)
  /\ IF SendRejected(chatInput)
     THEN /\ lastOp' = IF chatInput = "" THEN "emptyRejected"
                        ELSE "sendRejected"
          /\ UNCHANGED <<user, stored, viewVars, asks>>
     ELSE /\ asks < MaxAsks
          /\ chatHistory' = Append(chatHistory,
                                   [role |-> "user", text |-> chatInput])
          /\ isTyping' = TRUE
          /\ handleUpdateUser(IncrementedProfile(user))
          /\ tutorPending' = [question |-> chatInput,
                              history |-> chatHistory,
                              userProfile |-> user]
          /\ asks' = asks + 1
          /\ lastOp' = "done"
          /\ UNCHANGED <<streamingMessage, lessonCompleted, audioVars>>
  /\ UNCHANGED <<now, db, mounted, currentScreen, activeLesson,
                 activeDifficulty, loading, authPending, error, showUpgrade,
                 lessonReqs, latestReq, isAnalyzing, docReqs, acts, docs>>

\* src/unnamed/part_000:267-275 and 279-281 with src/types.ts:253-277:
\* askTutor returns the reply, returns the text of a caught provider error,
\* or throws (no API key)
TutorReply(outcome) ==
  /\ tutorPending # NULL
  /\ tutorPending' = NULL
  /\ isTyping' = FALSE
  /\ streamingMessage' = IF outcome = "throw" THEN "" ELSE outcome
  /\ lastOp' = IF outcome = "reply" THEN "done" ELSE "tutorFailed"
  /\ UNCHANGED <<now, stored, db, mounted, appVars, chatHistory,
                 lessonCompleted, isAnalyzing, docReqs, acts, asks, docs,
                 audioVars>>

\* src/unnamed/part_000:276-278: the end of the streaming loop
StreamDone ==
  /\ streamingMessage # ""
  /\ chatHistory' = Append(chatHistory,
                           [role |-> "model", text |-> streamingMessage])
  /\ streamingMessage' = ""
  /\ lastOp' = "done"
  /\ UNCHANGED <<now, stored, db, mounted, appVars, isTyping, tutorPending,
                 lessonCompleted, isAnalyzing, docReqs, acts, asks, docs,
                 audioVars>>


\* ------------------------------------------------------------------------
\* LessonView: narration
\* ------------------------------------------------------------------------

\* the chunks of every narration: chunk i of the narration on context ctx
AudioLoops == [ctx : 1..MaxNarrations, i : 1..MaxChunks]

\* src/unnamed/part_000:114-127. The abort controller takes no part: no
\* request is given its signal, and the reference is cleared as soon as it
\* is aborted. The sources stopped here, on a context that is closed, are
\* taken to deliver no ended event.
stopAudio ==
  /\ activeSourcesRef' = {}
  /\ audioContextRef' = 0
  /\ isSpeaking' = FALSE
  /\ isPaused' = FALSE
  /\ isSynthesizing' = FALSE

\* src/unnamed/part_000:396: the stop button, shown while isSpeaking
StopClick ==
  /\ LessonViewShown(user, currentScreen, activeLesson)
  /\ isSpeaking
  /\ stopAudio
  /\ lastOp' = "done"
  /\ UNCHANGED <<now, stored, db, mounted, appVars, chatHistory, isTyping,
                 streamingMessage, tutorPending, lessonCompleted, playLoops,
                 narrations, isAnalyzing, docReqs, acts, asks, docs>>

\* src/unnamed/part_000:129-132 (the voice itself decides nothing here)
handleVoiceChange ==
  /\ LessonViewShown(user, currentScreen, activeLesson)
  /\ stopAudio
  /\ lastOp' = "done"
  /\ UNCHANGED <<now, stored, db, mounted, appVars, chatHistory, isTyping,
                 streamingMessage, tutorPending, lessonCompleted, playLoops,
                 narrations, isAnalyzing, docReqs, acts, asks, docs>>

\* src/unnamed/part_000:140-157: toggleSpeech pauses, resumes, or stops
\* what is left and starts a narration: a new AudioContext, a request for
\* every chunk, and the loop that awaits the first of them
toggleSpeech ==
  /\ LessonViewShown(user, currentScreen, activeLesson)
  /\ IF isSpeaking /\ ~isPaused
     THEN /\ isPaused' = TRUE
          /\ UNCHANGED <<isSpeaking, isSynthesizing, audioContextRef,
                         activeSourcesRef, playLoops, narrations>>
     ELSE IF isPaused
     THEN /\ isPaused' = FALSE
          /\ UNCHANGED <<isSpeaking, isSynthesizing, audioContextRef,
                         activeSourcesRef, playLoops, narrations>>
     ELSE /\ narrations < MaxNarrations
          /\ narrations' = narrations + 1
          /\ activeSourcesRef' = {}
          /\ audioContextRef' = narrations + 1
          /\ isPaused' = FALSE
          /\ isSynthesizing' = TRUE
          /\ isSpeaking' = TRUE
          /\ playLoops' = playLoops \cup {[ctx |-> narrations + 1, i |-> 1]}
  /\ lastOp' = "done"
  /\ UNCHANGED <<now, stored, db, mounted, appVars, chatHistory, isTyping,
                 streamingMessage, tutorPending, lessonCompleted, isAnalyzing,
                 docReqs, acts, asks, docs>>

\* src/unnamed/part_000:158-185: the loop of a narration when the chunk it
\* awaits arrives (ok) or its request fails. It tests the references of
\* the view, which a later narration may have set, and starts the source on
\* its own context.
ChunkReady(loop, ok) ==
  /\ loop \in playLoops
  /\ IF ~ok
     THEN /\ isSpeaking' = FALSE
          /\ isSynthesizing' = FALSE
          /\ playLoops' = playLoops \ {loop}
          /\ UNCHANGED activeSourcesRef
     ELSE IF audioContextRef = 0
     THEN /\ isSynthesizing' = FALSE
          /\ playLoops' = playLoops \ {loop}
          /\ UNCHANGED <<isSpeaking, activeSourcesRef>>
     ELSE /\ activeSourcesRef' =
               activeSourcesRef \cup {[ctx |-> loop.ctx, i |-> loop.i]}
          /\ isSynthesizing' = IF loop.i = 1 \/ loop.i = MaxChunks
                               THEN FALSE ELSE isSynthesizing
          /\ playLoops' = IF loop.i = MaxChunks
                          THEN playLoops \ {loop}
                          ELSE (playLoops \ {loop})
                                 \cup {[loop EXCEPT !.i = loop.i + 1]}
          /\ UNCHANGED isSpeaking
  /\ lastOp' = IF ok THEN "done" ELSE "speechFailed"
  /\ UNCHANGED <<now, stored, db, mounted, appVars, chatHistory, isTyping,
                 streamingMessage, tutorPending, lessonCompleted, isPaused,
                 audioContextRef, narrations, isAnalyzing, docReqs, acts,
                 asks, docs>>

\* src/unnamed/part_000:170-177: onended of a source. Sources play one
\* after the other on the context in use while it is not suspended.
SourceEnded(source) ==
  /\ source \in activeSourcesRef
  /\ source.ctx = audioContextRef
  /\ ~isPaused
  /\ \A other \in activeSourcesRef :
        other.ctx = source.ctx => other.i >= source.i
  /\ activeSourcesRef' = activeSourcesRef \ {source}
  /\ IF activeSourcesRef' = {} /\ source.i = MaxChunks
     THEN isSpeaking' = FALSE /\ isPaused' = FALSE
     ELSE UNCHANGED <<isSpeaking, isPaused>>
  /\ lastOp' = "done"
  /\ UNCHANGED <<now, stored, db, mounted, appVars, chatHistory, isTyping,
                 streamingMessage, tutorPending, lessonCompleted,
                 isSynthesizing, audioContextRef, playLoops, narrations,
                 isAnalyzing, docReqs, acts, asks, docs>>

\* ------------------------------------------------------------------------
\* Upgrade and document analysis
\* ------------------------------------------------------------------------

\* src/types.ts:497, 506, 516: onTriggerUpgrade, called by a locked level
\* (src/components/Dashboard.tsx:68-72), by the lock screens of LessonView
\* (src/unnamed/part_000:321-323) and by a file selection of a FREE user
\* (src/components/Profile.tsx:31-34)
TriggerUpgrade ==
  /\ user # NULL
  /\ user.tier = "FREE"
  /\ \/ currentScreen \in {"dashboard", "profile"}
     \/ LessonViewShown(user, currentScreen, activeLesson)
  /\ ~showUpgrade
  /\ showUpgrade' = TRUE
  /\ lastOp' = "done"
  /\ UNCHANGED <<now, stored, db, mounted, user, currentScreen, activeLesson,
                 activeDifficulty, loading, authPending, error, lessonReqs, latestReq,
                 viewVars, isAnalyzing, docReqs, acts, asks, docs>>

\* src/types.ts:529: UpgradeModal onClose
CloseUpgrade ==
  /\ showUpgrade
  /\ showUpgrade' = FALSE
  /\ lastOp' = "done"
  /\ UNCHANGED <<now, stored, db, mounted, user, currentScreen, activeLesson,
                 activeDifficulty, loading, authPending, error, lessonReqs, latestReq,
                 viewVars, isAnalyzing, docReqs, acts, asks, docs>>

\* mockAuth.upgradeTier: the entitlement approval of spec section 6. It sets
\* the tier of the stored session and fails when there is none.
UpgradeResult(tier) ==
  IF stored = NULL THEN NULL ELSE [stored EXCEPT !.tier = tier]

handleUpgrade_optimistic(tier, ok) ==
  /\ showUpgrade
  /\ LET updatedUser == UpgradeResult(tier)
     IN IF updatedUser # NULL
        THEN /\ handleUpdateUser(updatedUser)
             /\ db' = updatedUser
             /\ showUpgrade' = ~ok
             /\ lastOp' = IF ok THEN "done" ELSE "upgradeFailed"
        ELSE /\ UNCHANGED <<user, stored, db, showUpgrade>>
             /\ lastOp' = "upgradeFailed"
  /\ UNCHANGED <<now, mounted, currentScreen, activeLesson, activeDifficulty,
                 loading, authPending, error, lessonReqs, latestReq, viewVars,
                 isAnalyzing, docReqs, acts, asks, docs>>

\* src/types.ts:464-472
handleUpgrade(tier, ok) ==
  /\ showUpgrade
  /\ LET updatedUser == UpgradeResult(tier)
     IN IF ok /\ updatedUser # NULL
        THEN /\ handleUpdateUser(updatedUser)
             /\ db' = updatedUser
             /\ showUpgrade' = FALSE
             /\ lastOp' = "done"
        ELSE /\ UNCHANGED <<user, stored, db, showUpgrade>>
             /\ lastOp' = "upgradeFailed"
  /\ UNCHANGED <<now, mounted, currentScreen, activeLesson, activeDifficulty,
                 loading, authPending, error, lessonReqs, latestReq, viewVars,
                 isAnalyzing, docReqs, acts, asks, docs>>

\* src/types.ts:497, 506, 516: onTriggerUpgrade opens the upgrade prompt
onTriggerUpgrade ==
  /\ showUpgrade' = TRUE
  /\ UNCHANGED <<now, stored, db, mounted, user, currentScreen, activeLesson,
                 activeDifficulty, loading, authPending, error, lessonReqs, latestReq,
                 viewVars, isAnalyzing, docReqs, acts, asks, docs>>

\* src/components/Dashboard.tsx:68-74: handleLevelClick on a locked level.
\* On a level that is not locked it only selects the level, which
\* DashboardSubmit takes as its input.
handleLevelClick(lv) ==
  /\ user # NULL
  /\ currentScreen = "dashboard"
  /\ isLevelLocked(user, lv)
  /\ onTriggerUpgrade
  /\ lastOp' = "levelLocked"

\* src/unnamed/part_000:473-476 with 316-327: the exam tab of a locked
\* tier shows the lock screen, whose button opens the upgrade prompt
ExamLockScreen ==
  /\ LessonViewShown(user, currentScreen, activeLesson)
  /\ isExamLocked(user.tier)
  /\ onTriggerUpgrade
  /\ lastOp' = "examLocked"

handleFileSelect_ungated ==
  /\ ProfileShown(user, currentScreen)
  /\ ~isAnalyzing
  /\ docs < MaxDocs
  /\ isAnalyzing' = TRUE
  /\ docReqs' = Append(docReqs, user)
  /\ docs' = docs + 1
  /\ lastOp' = "done"
  /\ UNCHANGED <<now, stored, db, mounted, appVars, viewVars, acts, asks>>

\* src/components/Profile.tsx:27-43: handleFileSelect up to the await; the
\* continuation keeps the user of this render
handleFileSelect ==
  /\ ProfileShown(user, currentScreen)
  /\ IF ~isPremium(user)
     THEN /\ onTriggerUpgrade
          /\ lastOp' = "fileLocked"
     ELSE /\ ~isAnalyzing
          /\ docs < MaxDocs
          /\ isAnalyzing' = TRUE
          /\ docReqs' = Append(docReqs, user)
          /\ docs' = docs + 1
          /\ lastOp' = "done"
          /\ UNCHANGED <<now, stored, db, mounted, appVars, viewVars, acts,
                         asks>>

\* src/components/Profile.tsx:43-58: the continuation of reader.onload;
\* a failure of analyzeDocument rejects it and nothing is written
AnalysisDone(ok) ==
  /\ docReqs # <<>>
  /\ docReqs' = Tail(docReqs)
  /\ IF ok
     THEN /\ handleUpdateUser(AnalysedProfile(Head(docReqs), now))
          /\ isAnalyzing' = FALSE
          /\ ViewAfter(AnalysedProfile(Head(docReqs), now), currentScreen,
                       activeLesson)
          /\ lastOp' = "done"
     ELSE /\ UNCHANGED <<user, stored, viewVars, isAnalyzing>>
          /\ lastOp' = "analysisFailed"
  /\ UNCHANGED <<now, db, mounted, currentScreen, activeLesson,
                 activeDifficulty, loading, authPending, error, showUpgrade,
                 lessonReqs, latestReq, acts, asks, docs>>

\* ------------------------------------------------------------------------
\* The application
\* ------------------------------------------------------------------------

Session ==
  \/ Mount
  \/ HandleAuth
  \/ \E ok \in BOOLEAN : AuthResolve(ok)
  \/ \E screen \in {"dashboard", "profile"} : Navigate(screen)
  \/ \E i \in 1..MaxPending, ok \in BOOLEAN : LessonResolve(i, ok)
  \/ TriggerUpgrade
  \/ CloseUpgrade

Next ==
  \/ Session
  \/ Tick
  \/ \E screen \in {"login", "register"} : NavigateAuth(screen)
  \/ HandleLogout
  \/ \E topic \in Topics, level \in Levels : DashboardSubmit(topic, level)
  \/ \E topic \in Topics : NextTopicClick(topic)
  \/ \E score \in QuizScores : QuizComplete(score)
  \/ handleMarkMastery
  \/ \E chatInput \in {"", "q"} : handleSendMessage(chatInput)
  \/ \E outcome \in {"reply", "interrupted", "throw"} : TutorReply(outcome)
  \/ StreamDone
  \/ \E tier \in {"PREMIUM", "PRO"}, ok \in BOOLEAN : handleUpgrade(tier, ok)
  \/ handleFileSelect
  \/ \E ok \in BOOLEAN : AnalysisDone(ok)
  \/ \E lv \in Levels : handleLevelClick(lv)
  \/ ExamLockScreen
  \/ toggleSpeech
  \/ StopClick
  \/ handleVoiceChange
  \/ \E loop \in AudioLoops, ok \in BOOLEAN : ChunkReady(loop, ok)
  \/ \E source \in AudioLoops : SourceEnded(source)

Spec == Init /\ [][Next]_vars

\* The learner's progress: lessons at Beginner level on every topic, quizzes
\* with every score around the two thresholds and mastery acknowledgements,
\* at one moment in time.
NextScores ==
  \/ Session
  \/ \E topic \in Topics : DashboardSubmit(topic, "Beginner")
  \/ \E score \in QuizScores : QuizComplete(score)
  \/ handleMarkMastery
  \/ \E ok \in BOOLEAN : handleUpgrade("PREMIUM", ok)

SpecScores == Init /\ [][NextScores]_vars

\* Every writer of the profile of a logged-in user except the tutor chat:
\* activities on every topic, upgrades, and document analyses that complete
\* after other writers have run.
NextDocs ==
  \/ Session
  \/ \E topic \in Topics : DashboardSubmit(topic, "Beginner")
  \/ QuizComplete(WeakBelow - 1)
  \/ handleMarkMastery
  \/ \E ok \in BOOLEAN : handleUpgrade("PREMIUM", ok)
  \/ handleFileSelect
  \/ \E ok \in BOOLEAN : AnalysisDone(ok)

SpecDocs == Init /\ [][NextDocs]_vars

\* The streak: activities on one topic as the days pass.
NextStreak ==
  \/ Session
  \/ Tick
  \/ DashboardSubmit("Calculus", "Beginner")
  \/ QuizComplete(RecoveredFrom)
  \/ handleMarkMastery
  \/ \E ok \in BOOLEAN : handleUpgrade("PREMIUM", ok)

SpecStreak == Init /\ [][NextStreak]_vars

\* The daily quota: tutor questions, sessions and upgrades as time passes.
NextQuota ==
  \/ Session
  \/ Tick
  \/ \E screen \in {"login", "register"} : NavigateAuth(screen)
  \/ HandleLogout
  \/ DashboardSubmit("Calculus", "Beginner")
  \/ \E chatInput \in {"", "q"} : handleSendMessage(chatInput)
  \/ \E outcome \in {"reply", "interrupted", "throw"} : TutorReply(outcome)
  \/ StreamDone
  \/ \E tier \in {"PREMIUM", "PRO"}, ok \in BOOLEAN : handleUpgrade(tier, ok)

SpecQuota == Init /\ [][NextQuota]_vars


\* Every writer of the profile of a logged-in user together: questions,
\* activities, upgrades to either paid tier and document analyses.
NextProfile ==
  \/ Session
  \/ DashboardSubmit("Calculus", "Beginner")
  \/ handleMarkMastery
  \/ handleSendMessage("q")
  \/ TutorReply("reply")
  \/ StreamDone
  \/ \E tier \in {"PREMIUM", "PRO"}, ok \in BOOLEAN : handleUpgrade(tier, ok)
  \/ handleFileSelect
  \/ \E ok \in BOOLEAN : AnalysisDone(ok)

SpecProfile == Init /\ [][NextProfile]_vars


\* Lessons: requests at every level, lesson switches and generation
\* failures, with quizzes on the lesson shown.
NextLessons ==
  \/ Session
  \/ \E level \in Levels : DashboardSubmit("Calculus", level)
  \/ NextTopicClick("Algebra")
  \/ QuizComplete(RecoveredFrom)
  \/ \E ok \in BOOLEAN : handleUpgrade("PREMIUM", ok)

SpecLessons == Init /\ [][NextLessons]_vars

\* Gated features: levels, the exam and document analysis for every tier.
NextGating ==
  \/ Session
  \/ \E level \in Levels : DashboardSubmit("Calculus", level)
  \/ \E lv \in Levels : handleLevelClick(lv)
  \/ ExamLockScreen
  \/ QuizComplete(RecoveredFrom)
  \/ handleFileSelect
  \/ \E ok \in BOOLEAN : AnalysisDone(ok)
  \/ \E tier \in {"PREMIUM", "PRO"}, ok \in BOOLEAN : handleUpgrade(tier, ok)

SpecGating == Init /\ [][NextGating]_vars

\* The question limit: the application starts without a session, or on the
\* session of a FREE user who is one question short of the limit or who
\* reached it a day ago (the mount effect starts a new window at 0);
\* questions in lessons that are switched.
SpentSession ==
  [Asked(FreshProfile(StartTime - twentyFourHours), DailyLimit)
     EXCEPT !.streak = 1, !.lastActiveDate = StartTime - twentyFourHours]

InitLimit ==
  /\ now = StartTime
  /\ \/ stored = NULL /\ db = NULL
     \/ stored = BusySession /\ db = FreshProfile(StartTime - 1000)
     \/ stored = SpentSession
          /\ db = FreshProfile(StartTime - twentyFourHours)
  /\ mounted = FALSE
  /\ user = NULL
  /\ currentScreen = "landing"
  /\ activeLesson = NULL
  /\ activeDifficulty = "Beginner"
  /\ loading = FALSE
  /\ authPending = "none"
  /\ error = NoError
  /\ showUpgrade = FALSE
  /\ lessonReqs = <<>>
  /\ latestReq = NULL
  /\ chatHistory = <<>>
  /\ isTyping = FALSE
  /\ streamingMessage = ""
  /\ tutorPending = NULL
  /\ lessonCompleted = FALSE
  /\ isSpeaking = FALSE
  /\ isPaused = FALSE
  /\ isSynthesizing = FALSE
  /\ audioContextRef = 0
  /\ activeSourcesRef = {}
  /\ playLoops = {}
  /\ narrations = 0
  /\ isAnalyzing = FALSE
  /\ docReqs = <<>>
  /\ lastOp = "done"
  /\ acts = 0
  /\ asks = 0
  /\ docs = 0

NextLimit ==
  \/ Session
  \/ DashboardSubmit("Calculus", "Beginner")
  \/ NextTopicClick("Algebra")
  \/ handleSendMessage("q")
  \/ \E outcome \in {"reply", "throw"} : TutorReply(outcome)
  \/ StreamDone

SpecLimit == InitLimit /\ [][NextLimit]_vars

\* Overlapping lesson requests: topics clicked on the Next Topics tab while
\* earlier requests are pending, answered in any order, and a logout while
\* requests are pending.
NextOverlap ==
  \/ Session
  \/ \E screen \in {"login", "register"} : NavigateAuth(screen)
  \/ HandleLogout
  \/ \E topic \in Topics : DashboardSubmit(topic, "Beginner")
  \/ \E topic \in Topics : NextTopicClick(topic)

SpecOverlap == Init /\ [][NextOverlap]_vars

\* The narration of a lesson: started, paused, resumed, stopped and started
\* again while chunks of audio arrive, fail and play to the end.
NextAudio ==
  \/ Session
  \/ DashboardSubmit("Calculus", "Beginner")
  \/ toggleSpeech
  \/ StopClick
  \/ handleVoiceChange
  \/ \E loop \in AudioLoops, ok \in BOOLEAN : ChunkReady(loop, ok)
  \/ \E source \in AudioLoops : SourceEnded(source)

SpecAudio == Init /\ [][NextAudio]_vars

\* The quota reset on its own: the application starts on a stored session
\* of any age and the mount effect applies checkAndResetDailyLimit to it.
\* db keeps the session as it was stored.
ResetElapsed ==
  {0 - 1000, 0, 1000, twentyFourHours - 1, twentyFourHours,
   twentyFourHours + 1, 2 * twentyFourHours, 2 * twentyFourHours + 1000}

ResetInputs ==
  { [base EXCEPT !.tier = tier, !.dailyQuestionCount = count,
                 !.lastQuestionResetDate = last] :
      base \in {FreshProfile(0), VeteranRecord},
      tier \in {"FREE", "PREMIUM"},
      count \in {0, 5, DailyLimit},
      last \in {Undefined, 0} \cup {StartTime - e : e \in ResetElapsed} }

InitReset ==
  /\ now = StartTime
  /\ stored \in ResetInputs
  /\ db = stored
  /\ mounted = FALSE
  /\ user = NULL
  /\ currentScreen = "landing"
  /\ activeLesson = NULL
  /\ activeDifficulty = "Beginner"
  /\ loading = FALSE
  /\ authPending = "none"
  /\ error = NoError
  /\ showUpgrade = FALSE
  /\ lessonReqs = <<>>
  /\ latestReq = NULL
  /\ chatHistory = <<>>
  /\ isTyping = FALSE
  /\ streamingMessage = ""
  /\ tutorPending = NULL
  /\ lessonCompleted = FALSE
  /\ isSpeaking = FALSE
  /\ isPaused = FALSE
  /\ isSynthesizing = FALSE
  /\ audioContextRef = 0
  /\ activeSourcesRef = {}
  /\ playLoops = {}
  /\ narrations = 0
  /\ isAnalyzing = FALSE
  /\ docReqs = <<>>
  /\ lastOp = "done"
  /\ acts = 0
  /\ asks = 0
  /\ docs = 0

NextReset == Mount

SpecReset == InitReset /\ [][NextReset]_vars


\* ------------------------------------------------------------------------
\* Properties
\* ------------------------------------------------------------------------

\* the reset date of a profile, a missing one counting as 0
LastResetOf(p) ==
  IF p.lastQuestionResetDate = Undefined THEN 0 ELSE p.lastQuestionResetDate

\* C1 (SpecReset): the mount effect turns a stored session into the same
\* profile with dailyQuestionCount = 0 and lastQuestionResetDate = now when
\* now - lastQuestionResetDate >= 86,400,000 ms (a missing date counting as
\* 0), and into the stored session itself otherwise.
C1_ResetContract ==
  mounted =>
    IF now - LastResetOf(db) >= 86400000
    THEN user = [db EXCEPT !.dailyQuestionCount = 0,
                           !.lastQuestionResetDate = now]
    ELSE user = db

\* a session stored exactly 86,400,000 ms ago with questions asked is reset
C1_Witness ==
  /\ mounted
  /\ now - LastResetOf(db) = 86400000
  /\ db.dailyQuestionCount > 0
  /\ user.dailyQuestionCount = 0
  /\ user.lastQuestionResetDate = now

\* C2 (SpecReset): resetting the stored session twice at the same now gives
\* the profile that resetting it once gives.
C2_ResetIdempotent ==
  LET once == checkAndResetDailyLimit(stored, now)
  IN checkAndResetDailyLimit(once, now) = once

\* a session two quota windows old has been reset by the mount effect
C2_Witness ==
  /\ mounted
  /\ now - LastResetOf(db) >= 2 * 86400000
  /\ db.lastQuestionResetDate > 0
  /\ db.dailyQuestionCount > 0
  /\ user.dailyQuestionCount = 0
  /\ stored = user

\* the scores recorded for a topic, oldest first
ScoresFor(u, topic) ==
  LET recs == SelectSeq(u.quizScores, LAMBDA r : r.topic = topic)
  IN [i \in 1..Len(recs) |-> recs[i].score]

\* the most recent score is below 70 and no later score is 85 or more
RecentlyWeak(scores) ==
  \E i \in 1..Len(scores) :
    /\ i = Len(scores)
    /\ scores[i] < 70
    /\ \A j \in (i + 1)..Len(scores) : scores[j] < 85

\* some score is below 70 and no later score is 85 or more
Unrecovered(scores) ==
  \E i \in 1..Len(scores) :
    /\ scores[i] < 70
    /\ \A j \in (i + 1)..Len(scores) : scores[j] < 85

\* C3 as stated (SpecScores): a topic is in weakTopics if and only if its
\* most recent recorded score is below 70 and no later score of 85 or more
\* has been recorded for it.
C3_MostRecentScore ==
  user # NULL =>
    \A topic \in Topics :
      Includes(user.weakTopics, topic)
        <=> RecentlyWeak(ScoresFor(user, topic))

\* C3 amended (SpecScores): a topic is in weakTopics if and only if some
\* recorded score of the topic is below 70 and no later score of 85 or more
\* has been recorded for it.
C3_Unrecovered ==
  user # NULL =>
    \A topic \in Topics :
      Includes(user.weakTopics, topic)
        <=> Unrecovered(ScoresFor(user, topic))

\* a weak topic whose most recent score is in [70, 85)
C3_Witness ==
  /\ user # NULL
  /\ \E topic \in Topics :
       LET scores == ScoresFor(user, topic)
       IN /\ Includes(user.weakTopics, topic)
          /\ Len(scores) >= 2
          /\ scores[Len(scores)] >= 70
          /\ scores[Len(scores)] < 85

\* the progress the recorded activities add up to: 2 for a mastery
\* acknowledgement (score 100), 5 for a quiz
RECURSIVE RawProgress(_)
RawProgress(records) ==
  IF records = <<>> THEN 0
  ELSE (IF Head(records).score = 100 THEN 2 ELSE 5) + RawProgress(Tail(records))

\* C4 (SpecScores): learningProgress is within [0, 100] in every state.
C4_ProgressInRange ==
  user # NULL => user.learningProgress \in 0..100

\* the activities recorded add up to more than 100
C4_Witness ==
  /\ user # NULL
  /\ acts > 0
  /\ RawProgress(user.quizScores) > 100
  /\ user.learningProgress = 100

\* C5 (SpecDocs): completedTopics contains the topic of every record of
\* quizScores.
C5_CompletedCoversScores ==
  user # NULL =>
    \A i \in 1..Len(user.quizScores) :
      Includes(user.completedTopics, user.quizScores[i].topic)

\* activities on both topics and a completed document analysis
C5_Witness ==
  /\ user # NULL
  /\ acts > 0
  /\ user.uploadedDocuments # <<>>
  /\ {user.quizScores[i].topic : i \in 1..Len(user.quizScores)} = Topics


\* a step in which recordActivity recorded an activity
ActivityRecorded == acts' = acts + 1

\* a step in which handleSendMessage called the tutor provider
QuestionAccepted == asks' = asks + 1

\* a step in which handleSendMessage gave up on a question that was not blank
QuestionRejected == lastOp' = "sendRejected"

\* the chat is idle: no reply is awaited or being streamed
ChatIdle == ~isTyping /\ streamingMessage = ""

\* tier FREE and 100 questions or more counted
FreeAtLimit(u) == u.tier = "FREE" /\ u.dailyQuestionCount >= 100

\* C6 (SpecQuota): the chat is locked exactly when the tier is FREE and
\* dailyQuestionCount >= 100. A question is accepted only when that is not
\* so, a question put to the idle chat is rejected only when it is so (never
\* for a PREMIUM or PRO user), and the question a FREE user asks at count 99
\* leaves the count at 100 and the chat locked.
C6_LockedAtLimit ==
  [][ /\ QuestionAccepted => ~FreeAtLimit(user)
      /\ QuestionRejected /\ ChatIdle => FreeAtLimit(user)
      /\ QuestionAccepted /\ user.tier = "FREE" /\ user.dailyQuestionCount = 99
           => /\ user'.dailyQuestionCount = 100
              /\ hasExceededLimit(user'.tier, user')
    ]_vars

\* the question asked at count 99 is in the chat, the count is 100 and the
\* next question was rejected
C6_Witness ==
  /\ LessonViewShown(user, currentScreen, activeLesson)
  /\ user.tier = "FREE"
  /\ user.dailyQuestionCount = 100
  /\ Len(chatHistory) >= 1
  /\ ChatIdle
  /\ lastOp = "sendRejected"

\* C7 (SpecStreak): recordActivity sets the streak to 1 when lastActiveDate
\* is unset, adds 1 to it when the local calendar date of lastActiveDate
\* differs from that of now, and leaves it unchanged otherwise.
C7_StreakByCalendarDay ==
  [][ ActivityRecorded =>
        user'.streak =
          IF user.lastActiveDate = Undefined THEN 1
          ELSE IF (user.lastActiveDate + TzOffset) \div MsPerDay
                    # (now + TzOffset) \div MsPerDay
               THEN user.streak + 1
               ELSE user.streak
    ]_vars

\* a streak of 3 that became 4 on the first activity of today and is still 4
\* after a second activity later the same day
C7_Witness ==
  /\ user # NULL
  /\ acts = 2
  /\ user.streak = 4
  /\ user.lastActiveDate > StartTime
  /\ toDateString(user.lastActiveDate) = toDateString(StartTime)

\* the number of times x occurs in arr
Occurrences(arr, x) == Cardinality({i \in 1..Len(arr) : arr[i] = x})

\* C8 (SpecScores): recordActivity for topic t with score s adds t to
\* weakTopics when s < 70 (once), removes it when s >= 85, leaves weakTopics
\* as it was when 70 <= s < 85, and changes the membership of no other
\* topic.
C8_WeakTopicsUpdate ==
  [][ ActivityRecorded =>
        LET t    == activeLesson.topic
            s    == user'.quizScores[Len(user'.quizScores)].score
            old  == user.weakTopics
            new  == user'.weakTopics
        IN /\ s < 70 => /\ Includes(new, t)
                        /\ Occurrences(new, t) = 1
                        /\ Includes(old, t) => new = old
           /\ s >= 85 => ~Includes(new, t)
           /\ (s >= 70 /\ s < 85) => new = old
           /\ \A o \in Topics \ {t} : Occurrences(new, o) = Occurrences(old, o)
    ]_vars

\* a score below 70 for Calculus followed by a score of 85 or more: the
\* topic was added and is removed again
C8_Witness ==
  /\ user # NULL
  /\ acts = 2
  /\ ~Includes(user.weakTopics, "Calculus")
  /\ LET scores == ScoresFor(user, "Calculus")
     IN /\ Len(scores) = 2
        /\ scores[1] < 70
        /\ scores[2] >= 85

\* a step of handleSendMessage: it gave up, or it accepted the question
QuestionSubmitted ==
  \/ lastOp' \in {"sendRejected", "emptyRejected"}
  \/ QuestionAccepted

\* C9 (SpecQuota): a question submitted by a FREE user whose
\* dailyQuestionCount is >= 100 calls no tutor provider and changes neither
\* the profile nor the chat history.
C9_QuotaCheckedFirst ==
  [][ /\ LessonViewShown(user, currentScreen, activeLesson)
      /\ FreeAtLimit(user)
      /\ QuestionSubmitted
      => /\ asks' = asks
         /\ tutorPending' = tutorPending
         /\ user' = user
         /\ stored' = stored
         /\ chatHistory' = chatHistory
         /\ isTyping' = isTyping
    ]_vars

\* a question rejected for the quota alone: the chat is idle and nothing is
\* awaited
C9_Witness ==
  /\ LessonViewShown(user, currentScreen, activeLesson)
  /\ FreeAtLimit(user)
  /\ ChatIdle
  /\ tutorPending = NULL
  /\ lastOp = "sendRejected"

\* C10 (SpecQuota): whenever the lesson view evaluates the gating check with
\* now - lastQuestionResetDate >= 24 h, the counter has been reset: a FREE
\* user is not blocked at the limit then.
C10_RollingQuota ==
  /\ LessonViewShown(user, currentScreen, activeLesson)
  /\ now - LastResetOf(user) >= 86400000
  => ~hasExceededLimit(user.tier, user)

\* the order of the tiers
TierRank(tier) ==
  CASE tier = "FREE" -> 0 [] tier = "PREMIUM" -> 1 [] tier = "PRO" -> 2

\* C11 (SpecProfile): no operation on the profile of a logged-in user
\* lowers its tier; in particular a PREMIUM or PRO profile never goes back
\* to FREE.
C11_TierNeverLowered ==
  [][ user # NULL /\ user' # NULL
        => TierRank(user'.tier) >= TierRank(user.tier) ]_vars

\* an upgraded profile that has since asked a question, recorded an activity
\* and had a document analysed
C11_Witness ==
  /\ user # NULL
  /\ user.tier = "PRO"
  /\ asks >= 1
  /\ acts >= 1
  /\ Len(user.uploadedDocuments) >= 1

\* C12 (SpecProfile): a failed upgrade leaves the profile, the stored
\* session and the record of the account as they were and the dialog open;
\* the tier changes only in an upgrade that succeeds, which closes the
\* dialog.
C12_FailedUpgradeKeepsProfile ==
  [][ /\ lastOp' = "upgradeFailed"
           => /\ user' = user
              /\ stored' = stored
              /\ db' = db
              /\ showUpgrade /\ showUpgrade'
      /\ user # NULL /\ user' # NULL /\ user'.tier # user.tier
           => /\ lastOp' = "done"
              /\ showUpgrade /\ ~showUpgrade'
              /\ stored' = user'
    ]_vars

\* a FREE user with questions asked whose upgrade failed: still FREE, the
\* dialog still open
C12_Witness ==
  /\ user # NULL
  /\ user.tier = "FREE"
  /\ user.dailyQuestionCount = DailyLimit
  /\ stored = user
  /\ showUpgrade
  /\ lastOp = "upgradeFailed"

\* C13 (SpecLessons): a lesson generation that fails commits nothing. The
\* step in which startLearning gives up leaves the active lesson, the screen
\* and the profile as they were, records no activity and issues no new
\* request; once no request is pending loading is false and the difficulty
\* in force is again the one the active lesson was generated at, as it was
\* before the request.
C13_FailedLessonCommitsNothing ==
  [][ lastOp' = "lessonFailed"
        => /\ activeLesson' = activeLesson
           /\ currentScreen' = currentScreen
           /\ user' = user
           /\ acts' = acts
           /\ Len(lessonReqs') < Len(lessonReqs)
           /\ lessonReqs' = <<>> => ~loading'
           /\ lessonReqs' = <<>> /\ activeLesson # NULL
                => activeDifficulty' = activeLesson.level
    ]_vars

\* s is a prefix of t
IsPrefix(s, t) == Len(s) <= Len(t) /\ SubSeq(t, 1, Len(s)) = s

\* C14 (SpecDocs): no operation on the profile of a logged-in user removes
\* a topic from completedTopics, and quizScores only grows by appending.
C14_HistoryOnlyGrows ==
  [][ user # NULL /\ user' # NULL
        => /\ Elems(user.completedTopics) \subseteq Elems(user'.completedTopics)
           /\ IsPrefix(user.quizScores, user'.quizScores)
    ]_vars

\* a step in which a gated feature was refused
FeatureRefused == lastOp' \in {"levelLocked", "examLocked", "fileLocked"}

\* C15 (SpecGating): Intermediate and Advanced levels, the exam quiz and
\* document analysis are locked exactly for the FREE tier, PREMIUM and PRO
\* are gated alike and Beginner is never locked: a lesson above Beginner, a
\* quiz or an analysis is started only by a user who is not FREE, a feature
\* is refused only to a FREE user, and a refusal opens the upgrade prompt
\* and does nothing else.
C15_GatedByTierAlone ==
  [][ /\ Len(lessonReqs') = Len(lessonReqs) + 1
           /\ lessonReqs'[Len(lessonReqs')].level # "Beginner"
           => user.tier # "FREE"
      /\ acts' = acts + 1 => user.tier # "FREE"
      /\ docs' = docs + 1 => user.tier # "FREE"
      /\ FeatureRefused
           => /\ user.tier = "FREE"
              /\ showUpgrade'
              /\ UNCHANGED <<now, stored, db, mounted, user, currentScreen,
                             activeLesson, activeDifficulty, loading,
                             authPending, error, lessonReqs, latestReq, viewVars,
                             isAnalyzing, docReqs, acts, asks, docs>>
      /\ \A lv \in Levels :
           /\ isLevelLocked([tier |-> "PREMIUM"], lv)
                = isLevelLocked([tier |-> "PRO"], lv)
           /\ isLevelLocked([tier |-> "FREE"], lv) = (lv # "Beginner")
    ]_vars

\* a FREE user in a Beginner lesson was refused the exam: the upgrade prompt
\* is open and no activity was recorded
C15_Witness ==
  /\ LessonViewShown(user, currentScreen, activeLesson)
  /\ user.tier = "FREE"
  /\ activeLesson.level = "Beginner"
  /\ lastOp = "examLocked"
  /\ showUpgrade
  /\ acts = 0

C17_OneRecordAppended ==
  [][ /\ ActivityRecorded
        => /\ user # NULL /\ activeLesson # NULL
           /\ \E score \in 0..100 :
                user'.quizScores =
                  Append(user.quizScores,
                         [topic |-> activeLesson.topic, score |-> score,
                          date |-> now, difficulty |-> activeDifficulty])
           /\ Elems(user'.completedTopics)
                = Elems(user.completedTopics) \cup {activeLesson.topic}
           /\ Occurrences(user'.completedTopics, activeLesson.topic) = 1
           /\ user'.lastActiveDate = now
      /\ user = NULL \/ activeLesson = NULL => acts' = acts
    ]_vars

\* two activities on a topic that was completed before: two records more,
\* the topic still listed once
C17_Witness ==
  /\ user # NULL
  /\ acts = 2
  /\ Len(user.quizScores) = Len(VeteranRecord.quizScores) + 2
  /\ user.quizScores[Len(user.quizScores)].topic = "Algebra"
  /\ user.quizScores[Len(user.quizScores) - 1].topic = "Algebra"
  /\ Occurrences(user.completedTopics, "Algebra") = 1
  /\ user.lastActiveDate = now

\* a step in which handleMarkMastery recorded a mastery acknowledgement
MasteryRecorded == ActivityRecorded /\ lessonCompleted' /\ ~lessonCompleted

SessionStarted == user = NULL /\ user' # NULL

\* C19 (SpecProfile): incrementQuestionCount adds exactly 1 to
\* dailyQuestionCount and changes no other field; recordActivity leaves
\* email, tier, dailyQuestionCount, lastQuestionResetDate and
\* uploadedDocuments unchanged; the quota reset changes only
\* dailyQuestionCount and lastQuestionResetDate; no step changes email.
C19_FrameConditions ==
  [][ /\ QuestionAccepted
           => user' = [user EXCEPT
                         !.dailyQuestionCount = user.dailyQuestionCount + 1]
      /\ ActivityRecorded
           => /\ user'.email = user.email
              /\ user'.tier = user.tier
              /\ user'.dailyQuestionCount = user.dailyQuestionCount
              /\ user'.lastQuestionResetDate = user.lastQuestionResetDate
              /\ user'.uploadedDocuments = user.uploadedDocuments
      /\ SessionStarted
           => LET given == IF mounted THEN stored' ELSE stored
              IN user' = [given EXCEPT
                   !.dailyQuestionCount = user'.dailyQuestionCount,
                   !.lastQuestionResetDate = user'.lastQuestionResetDate]
      /\ user # NULL /\ user' # NULL => user'.email = user.email
    ]_vars

\* a session that started with a reset, then one question and one activity
C19_Witness ==
  /\ user # NULL
  /\ user.lastQuestionResetDate = StartTime
  /\ user.dailyQuestionCount = 1
  /\ asks = 1
  /\ acts = 1
  /\ Len(user.quizScores) = Len(VeteranRecord.quizScores) + 1

\* C20 (SpecLimit): the dailyQuestionCount of a FREE profile never exceeds
\* 100, so the remaining count shown (100 - dailyQuestionCount) is never
\* negative.
C20_FreeCountWithinLimit ==
  user # NULL /\ user.tier = "FREE"
    => /\ user.dailyQuestionCount <= 100
       /\ 100 - user.dailyQuestionCount >= 0
       /\ stored # NULL => stored.dailyQuestionCount <= 100

\* the 100th question was asked, the lesson was switched and the next
\* question was refused
C20_Witness ==
  /\ LessonViewShown(user, currentScreen, activeLesson)
  /\ user.tier = "FREE"
  /\ user.dailyQuestionCount = 100
  /\ asks = 1
  /\ activeLesson.topic = "Algebra"
  /\ ChatIdle
  /\ lastOp = "sendRejected"


\* C21 (SpecQuota): a tutor question whose provider call fails commits
\* nothing to the profile: when askTutor gives up, dailyQuestionCount is what
\* it was in the profile the question was submitted from.
C21_FailedQuestionCommitsNothing ==
  [][ lastOp' = "tutorFailed"
        => OrElse(user'.dailyQuestionCount, 0)
             = OrElse(tutorPending.userProfile.dailyQuestionCount, 0)
    ]_vars


\* C22 (SpecLessons): every record recordActivity appends to quizScores
\* carries the difficulty level the active lesson was generated at, also
\* while a later startLearning request is pending or after it has failed.
C22_RecordCarriesLessonLevel ==
  [][ ActivityRecorded
        => user'.quizScores[Len(user'.quizScores)].difficulty
             = activeLesson.level
    ]_vars


\* a step in which a document analysis completed and wrote the profile
AnalysisCompleted ==
  docReqs # <<>> /\ docReqs' = Tail(docReqs) /\ lastOp' = "done"

\* C23 (SpecProfile): the profile a completed document analysis writes is
\* the profile current at completion with the new document placed first in
\* uploadedDocuments; question counts and activities recorded while the
\* analysis was in flight are kept.
C23_AnalysisKeepsProfile ==
  [][ AnalysisCompleted /\ user # NULL
        => user' = AnalysedProfile(user, now)
    ]_vars


\* the lesson the startLearning call issued last asked for
LatestLesson == [topic |-> latestReq.topic, level |-> latestReq.level]

\* C24 (SpecOverlap): once every overlapping startLearning request has
\* completed, the active lesson is the one produced by the request issued
\* last (if that one succeeded), in whatever order the responses arrived.
C24_LatestRequestWins ==
  /\ lessonReqs = <<>>
  /\ latestReq # NULL
  /\ latestReq.state = "shown"
  /\ activeLesson # NULL
  => activeLesson = LatestLesson


\* C25 (SpecQuota): while a user is logged in, the stored session (the
\* localStorage mirror) equals the in-memory profile after every completed
\* profile transition: restore, login or registration with the quota reset,
\* question increment, upgrade.
C25_MirrorEqualsProfile ==
  user # NULL => stored = user


\* the screens LandingPage shows
AuthScreens == {"landing", "login", "register", "forgot_password"}

\* C26 (SpecOverlap): while no user is logged in (before the first login
\* and after a logout) the application holds no lesson and is on an
\* authentication screen, also when a lesson generation started before the
\* logout completes after it.
C26_NoLessonAfterLogout ==
  user = NULL => activeLesson = NULL /\ currentScreen \in AuthScreens


\* C27 (SpecAudio): in every state of the narration controls isPaused
\* implies isSpeaking.
C27_PausedImpliesSpeaking ==
  isPaused => isSpeaking


\* a step of the loop of an earlier narration (its context is not the one
\* in use) while a later narration is under way in the same lesson view
StaleLoopStepped ==
  /\ audioContextRef # 0
  /\ audioContextRef' = audioContextRef
  /\ \E loop \in playLoops :
        loop.ctx # audioContextRef /\ loop \notin playLoops'

\* C28 (SpecAudio): once narration was stopped and started again, the loop
\* of the earlier narration starts no further source and changes neither
\* isSpeaking nor isSynthesizing.
C28_StaleLoopInert ==
  [][ StaleLoopStepped
        => /\ activeSourcesRef' = activeSourcesRef
           /\ isSpeaking' = isSpeaking
           /\ isSynthesizing' = isSynthesizing
    ]_vars


\* C29 (SpecQuota): within one lesson view at most one tutor question is in
\* flight. A submission made while a reply is awaited or streamed, or with
\* blank input, calls no provider and leaves the profile alone; an accepted
\* submission finds no call in flight, makes one call and adds exactly 1 to
\* dailyQuestionCount.
C29_OneQuestionInFlight ==
  [][ /\ QuestionSubmitted
           /\ (isTyping \/ streamingMessage # "" \/ lastOp' = "emptyRejected")
        => /\ asks' = asks
           /\ tutorPending' = tutorPending
           /\ user' = user
           /\ stored' = stored
      /\ QuestionAccepted
        => /\ tutorPending = NULL
           /\ streamingMessage = ""
           /\ tutorPending' # NULL
           /\ tutorPending'.question # ""
           /\ user'.dailyQuestionCount
                = OrElse(user.dailyQuestionCount, 0) + 1
    ]_vars

\* a question put while the reply to the first one was awaited was refused,
\* although the user is under the limit
C29_Witness ==
  /\ LessonViewShown(user, currentScreen, activeLesson)
  /\ tutorPending # NULL
  /\ isTyping
  /\ asks = 1
  /\ ~hasExceededLimit(user.tier, user)
  /\ lastOp = "sendRejected"


\* a step that puts a different lesson on the learning screen
LessonOpened ==
  /\ activeLesson' # activeLesson
  /\ LessonViewShown(user', currentScreen', activeLesson')

\* C30 (SpecLimit): whenever a different lesson becomes the active lesson
\* the view state of the lesson starts fresh, also when the lesson is opened
\* from the Next Topics tab: mastery is not acknowledged and the chat
\* history is empty.
C30_FreshLessonView ==
  [][ LessonOpened => ~lessonCompleted' /\ chatHistory' = <<>> ]_vars

====
